---- MODULE Spec2Model ----
(***************************************************************************)
(* Model of the quiz server (src/server.js): the two request handlers      *)
(* POST /api/generate-quiz and POST /api/evaluate-quiz, with the external  *)
(* generative service as an environment that answers the outbound call.    *)
(*                                                                         *)
(* JavaScript values are tagged records, so that strict equality (===) is  *)
(* equality of records and truthiness is a function of the tag:            *)
(*   primitives   [t, n, s]      undefined, null, boolean, number, string  *)
(*   arrays       [t, items]                                               *)
(*   objects      [t, <own properties>]                                    *)
(***************************************************************************)
EXTENDS Integers, Sequences, FiniteSets, TLC

(* ------------------------------------------------------------------ *)
(* Bounds                                                               *)
(* ------------------------------------------------------------------ *)
MaxQuestions == 2
MaxAnswers == 2

(* ------------------------------------------------------------------ *)
(* JavaScript values                                                    *)
(* ------------------------------------------------------------------ *)
Undef == [t |-> "undefined", n |-> 0, s |-> ""]
Null == [t |-> "null", n |-> 0, s |-> ""]
Num(k) == [t |-> "number", n |-> k, s |-> ""]
Str(x) == [t |-> "string", n |-> 0, s |-> x]
Bool(b) == [t |-> "boolean", n |-> IF b THEN 1 ELSE 0, s |-> ""]
Arr(xs) == [t |-> "array", items |-> xs]

\* ToBoolean: undefined, null, false, 0 and "" are falsy, everything else
\* (arrays and objects included, even empty ones) is truthy.
Truthy(v) ==
  CASE v.t = "undefined" -> FALSE
    [] v.t = "null" -> FALSE
    [] v.t = "boolean" -> v.n = 1
    [] v.t = "number" -> v.n # 0
    [] v.t = "string" -> v.s # ""
    [] OTHER -> TRUE

\* a || b
Or(a, b) == IF Truthy(a) THEN a ELSE b

\* v.field and v[index] throw a TypeError on undefined and null only.
Nullish(v) == v.t \in {"undefined", "null"}

\* v.field for a non-nullish v: an own property of an object, else undefined
\* (none of the fields read here exists on a primitive or an array).
Get(v, field) ==
  IF v.t = "object" /\ field \in DOMAIN v THEN v[field] ELSE Undef

\* v[idx] for a non-nullish v: an element of an array when idx is a number
\* inside the array, else undefined (the key "null", "undefined", "false" or a
\* number past the end names no property).
Index(v, idx) ==
  IF v.t = "array" /\ idx.t = "number" /\ idx.n >= 0 /\ idx.n < Len(v.items)
  THEN v.items[idx.n + 1]
  ELSE Undef

(* ------------------------------------------------------------------ *)
(* Responses                                                            *)
(* ------------------------------------------------------------------ *)
NoResponse == [kind |-> "none"]
\* res.status(status).json({ error: message })
ErrorResult(status, message) ==
  [kind |-> "json", status |-> status, error |-> message]
\* res.json(body)
JsonResult(body) == [kind |-> "json", status |-> 200, error |-> "", body |-> body]
\* An exception that leaves the handler: no res.json call was made.
Uncaught(name) == [kind |-> "uncaught", exception |-> name]

(* ------------------------------------------------------------------ *)
(* POST /api/evaluate-quiz                                              *)
(* ------------------------------------------------------------------ *)
MissingMsg == "Missing quiz data or user answers."
NoAnswer == Str("No answer provided")
NoCorrect == Str("Correct answer missing")
NoText == Str("Question text missing")
NoExplanation == Str("No explanation provided.")

\* Variant: quizData.questions without the fallback to quizData itself.
QuestionsOfNoFallback(quizData) == Get(quizData, "questions")

\* const questions = quizData.questions || quizData;
QuestionsOf(quizData) == Or(Get(quizData, "questions"), quizData)

\* Variants of the defaulting: a default of 1, and no default at all.
ResolveCorrectIndexDefaultOne(question) == Or(Get(question, "correctIndex"), Num(1))
ResolveCorrectIndexNoDefault(question) == Get(question, "correctIndex")

\* const correctIndex = question.correctIndex || 0;
ResolveCorrectIndex(question) == Or(Get(question, "correctIndex"), Num(0))

\* const userAnsIndex = userAnswers[index];
UserAnsIndex(userAnswers, index) == Index(userAnswers, Num(index))

\* const isCorrect = (correctIndex === userAnsIndex);
IsCorrect(correctIndex, userAnsIndex) == correctIndex = userAnsIndex

\* const options = question.options || [];
OptionsOf(question) == Or(Get(question, "options"), Arr(<<>>))

\* userAnswer: options[userAnsIndex] || "No answer provided"
UserAnswerText(options, userAnsIndex) == Or(Index(options, userAnsIndex), NoAnswer)

\* correctAnswer: options[correctIndex] || "Correct answer missing"
CorrectAnswerText(options, correctIndex) == Or(Index(options, correctIndex), NoCorrect)

\* The object pushed onto feedback for one question.
FeedbackItem(question, userAnsIndex) ==
  LET correctIndex == ResolveCorrectIndex(question)
      options == OptionsOf(question)
  IN [question |-> Or(Get(question, "question"), NoText),
      userAnswer |-> UserAnswerText(options, userAnsIndex),
      correctAnswer |-> CorrectAnswerText(options, correctIndex),
      isCorrect |-> IsCorrect(correctIndex, userAnsIndex),
      explanation |-> Or(Get(question, "explanation"), NoExplanation)]

\* Variant: feedback.unshift(item)
PushFront(feedback, item) == <<item>> \o feedback

\* feedback.push(item)
Push(feedback, item) == Append(feedback, item)

\* total: questions.length
TotalOf(questions) == Len(questions.items)

\* questions.forEach((question, index) => { ... }) from position index (0-based)
\* with the running score and feedback; a null entry throws at
\* question.correctIndex and ends the loop with the exception.
RECURSIVE ForEach(_, _, _, _, _)
ForEach(questions, userAnswers, index, score, feedback) ==
  IF index >= Len(questions.items)
  THEN [threw |-> FALSE, score |-> score, feedback |-> feedback]
  ELSE LET question == questions.items[index + 1]
       IN IF Nullish(question)
          THEN [threw |-> TRUE, score |-> score, feedback |-> feedback]
          ELSE LET userAnsIndex == UserAnsIndex(userAnswers, index)
                   item == FeedbackItem(question, userAnsIndex)
               IN ForEach(questions, userAnswers, index + 1,
                          IF item.isCorrect THEN score + 1 ELSE score,
                          Push(feedback, item))

\* The whole handler, as a function of the two fields of req.body.
EvaluateQuiz(quizData, userAnswers) ==
  IF ~Truthy(quizData) \/ ~Truthy(userAnswers)
  THEN ErrorResult(400, MissingMsg)
  ELSE LET questions == QuestionsOf(quizData)
       IN IF questions.t # "array"
          THEN Uncaught("TypeError")   \* questions.forEach is not a function
          ELSE LET r == ForEach(questions, userAnswers, 0, 0, <<>>)
               IN IF r.threw
                  THEN Uncaught("TypeError")
                  ELSE JsonResult([score |-> r.score,
                                   total |-> TotalOf(questions),
                                   feedback |-> r.feedback])

(* ------------------------------------------------------------------ *)
(* POST /api/generate-quiz                                              *)
(* ------------------------------------------------------------------ *)
PlaceholderKey == "paste_your_long_api_key_here"
ConfigMsg == "Server configuration error: API key is missing or not set. Please update backend/.env"
InvalidKeyMsg == "Failed to generate quiz. Your API key is not valid."
GenericMsg == "Failed to generate quiz. An error occurred on the server."
InvalidKeyPhrase == "API key not valid"

\* String.prototype.includes
Includes(s, sub) ==
  \E i \in 1..(Len(s) - Len(sub) + 1) : SubSeq(s, i, i + Len(sub) - 1) = sub

\* Variant: the check without the comparison with the placeholder.
CredentialMissingNoPlaceholder(apiKey) ==
  \/ ~Truthy(apiKey)
  \/ Includes(apiKey.s, "!!!")

\* if (!apiKey || apiKey === 'paste_your_long_api_key_here' || apiKey.includes('!!!'))
CredentialMissing(apiKey) ==
  \/ ~Truthy(apiKey)
  \/ apiKey = Str(PlaceholderKey)
  \/ Includes(apiKey.s, "!!!")

\* `${topic}` inside a template literal: undefined prints as "undefined".
TemplateText(v) == IF v.t = "undefined" THEN "undefined" ELSE v.s

\* const userQuery = `Generate the 10-question quiz on the topic: "${topic}"`;
UserQuery(topic) ==
  "Generate the 10-question quiz on the topic: \"" \o TemplateText(topic) \o "\""

\* The static instruction text (its content is fixed, not derived from the topic).
SystemPrompt == "You are a helpful quiz generation assistant. ..."

\* The outbound axios.post(apiUrl, {contents, systemInstruction, generationConfig}).
NoCall == [issued |-> FALSE]
ExternalCall(apiKey, topic) ==
  [issued |-> TRUE,
   key |-> apiKey.s,
   contents |-> UserQuery(topic),
   systemInstruction |-> SystemPrompt,
   responseMimeType |-> "application/json"]

\* The text the model returned: prose or markdown fencing before an optional JSON
\* document. JSON.parse accepts exactly a text that is one JSON document and
\* nothing else; for anything else (undefined included, which it reads as the
\* text "undefined") it throws a SyntaxError.
ModelText(pre, doc) == [t |-> "string", pre |-> pre, doc |-> doc]
JSONParse(text) ==
  IF text.t = "string" /\ text.pre = "" /\ text.doc.t # "undefined"
  THEN [threw |-> FALSE, value |-> text.doc]
  ELSE [threw |-> TRUE, value |-> Undef]

\* geminiResponse.data.candidates[0].content.parts[0].text: every step but the
\* last throws a TypeError when the value it reads from is undefined or null.
ExtractText(data) ==
  LET candidates == Get(data, "candidates")
      first == Index(candidates, Num(0))
      content == Get(first, "content")
      parts == Get(content, "parts")
      part == Index(parts, Num(0))
  IN IF \/ Nullish(data) \/ Nullish(candidates) \/ Nullish(first)
        \/ Nullish(content) \/ Nullish(parts) \/ Nullish(part)
     THEN [threw |-> TRUE, value |-> Undef]
     ELSE [threw |-> FALSE, value |-> Get(part, "text")]

\* The catch block, for the error the try block ended with.
HandleError(error) ==
  IF Truthy(error.response)
  THEN IF error.response.status = 400
       THEN LET err == Get(error.response.data, "error")
                message == Get(err, "message")
            IN IF Nullish(error.response.data) \/ Nullish(err) \/ message.t # "string"
               THEN Uncaught("TypeError")   \* thrown inside the catch block
               ELSE IF Includes(message.s, InvalidKeyPhrase)
                    THEN ErrorResult(500, InvalidKeyMsg)
                    ELSE ErrorResult(500, GenericMsg)
       ELSE ErrorResult(500, GenericMsg)
  ELSE ErrorResult(500, GenericMsg)

\* An exception raised by the handler's own code inside the try block: it
\* carries neither a response nor a request.
ThrownError(name) == [name |-> name, response |-> Undef, request |-> Undef]

\* The handler from the point where the awaited call settles.
AfterCall(outcome) ==
  IF outcome.kind = "rejected"
  THEN HandleError(outcome.error)
  ELSE LET jsonString == ExtractText(outcome.data)
       IN IF jsonString.threw
          THEN HandleError(ThrownError("TypeError"))
          ELSE LET quizJson == JSONParse(jsonString.value)
               IN IF quizJson.threw
                  THEN HandleError(ThrownError("SyntaxError"))
                  ELSE JsonResult(quizJson.value)

(* ------------------------------------------------------------------ *)
(* Inputs                                                               *)
(* ------------------------------------------------------------------ *)
Question(text, options, correctIndex, explanation) ==
  [t |-> "object", question |-> text, options |-> options,
   correctIndex |-> correctIndex, explanation |-> explanation]

\* { questions: ... }
Wrapped(questions) == [t |-> "object", questions |-> questions]

FullOptions == Arr(<<Str("3"), Str("4"), Str("5"), Str("6")>>)
\* Fewer than 4 options, the second one the empty string.
ShortOptions == Arr(<<Str("x"), Str("")>>)

\* Values the model may store as correctIndex (Undef: the field is omitted).
CorrectIndexValues == {Undef, Null, Bool(FALSE), Num(0), Num(1)}

\* Question entries: well-formed ones with every stored correctIndex, entries
\* with short or missing options and missing texts, and entries that are not
\* objects at all.
QuestionObjects ==
  {Question(Str("2+2?"), FullOptions, c, Str("Basic arithmetic")) :
     c \in CorrectIndexValues}
  \cup {Question(Undef, o, c, Undef) :
          o \in {Undef, ShortOptions}, c \in {Num(1), Num(2)}}
QuestionEntries == QuestionObjects \cup {Null, Num(5)}

SeqsUpTo(S, n) == UNION {[1..k -> S] : k \in 0..n}

\* Parsed JSON documents that have the quiz shape, bare or wrapped.
QuizShapes ==
  LET lists == {Arr(q) : q \in SeqsUpTo(QuestionEntries, MaxQuestions)}
  IN lists \cup {Wrapped(l) : l \in lists}

\* Parsed JSON documents of any other shape.
OtherShapes ==
  {Null, Num(0), Num(5), Str("quiz"), [t |-> "object", quiz |-> Arr(<<>>)],
   Wrapped(Str("none"))}

\* quizData of an evaluate request (Undef: the field is not in the body).
QuizPayloads == {Undef} \cup OtherShapes \cup QuizShapes

\* One learner answer as it arrives in the JSON body.
AnswerValues == {Null, Num(0), Num(1), Num(2)}

\* userAnswers of an evaluate request.
AnswerPayloads ==
  {Undef, Null, Num(0), [t |-> "object"]} \cup {Arr(a) : a \in SeqsUpTo(AnswerValues, MaxAnswers)}

\* process.env.GEMINI_API_KEY as read by one request.
ApiKeys ==
  {Undef, Str(""), Str(PlaceholderKey), Str("!!!paste key here!!!"), Str("AIzaSyD-valid")}

Topics == {Undef, Str(""), Str("Photosynthesis")}

\* Response bodies of the external service.
Candidates(text) ==
  [t |-> "object",
   candidates |-> Arr(<<[t |-> "object",
                         content |-> [t |-> "object",
                                      parts |-> Arr(<<[t |-> "object", text |-> text]>>)]]>>)]

ModelTexts ==
  {ModelText("", d) : d \in QuizShapes \cup OtherShapes}
  \cup {ModelText("Here is your quiz:", Wrapped(Arr(<<>>))), ModelText("Sorry, I cannot do that.", Undef),
        ModelText("", Undef)}

SuccessBodies ==
  {Candidates(x) : x \in ModelTexts}
  \cup {Candidates(Undef), [t |-> "object", candidates |-> Arr(<<>>)], [t |-> "object"]}

ErrorBody(message) == [t |-> "object", error |-> [t |-> "object", message |-> message]]
FailureBodies ==
  {ErrorBody(Str("API key not valid. Please pass a valid API key.")),
   ErrorBody(Str("Invalid JSON payload received.")),
   ErrorBody(Undef),
   [t |-> "object"],
   Str("<html>Bad Request</html>")}

\* What the awaited axios.post settles with.
Outcomes ==
  {[kind |-> "resolved", data |-> d] : d \in SuccessBodies}
  \cup {[kind |-> "rejected",
         error |-> [name |-> "AxiosError",
                    response |-> [t |-> "object", status |-> st, data |-> d],
                    request |-> [t |-> "object"]]] :
          st \in {400, 403, 500}, d \in FailureBodies}
  \cup {[kind |-> "rejected",
         error |-> [name |-> "AxiosError", response |-> Undef, request |-> [t |-> "object"]]],
        [kind |-> "rejected",
         error |-> [name |-> "Error", response |-> Undef, request |-> Undef]]}

(* ------------------------------------------------------------------ *)
(* The server: one request at a time, no state kept between requests    *)
(* ------------------------------------------------------------------ *)
VARIABLES
  pc,           \* "idle", "awaiting" (generate suspended at the await), "responded"
  op,           \* "none", "generate", "evaluate", "roundtrip"
  apiKey,       \* the credential the generate request read
  topic,        \* req.body.topic
  call,         \* the outbound call of the generate request
  outcome,      \* what the outbound call settled with
  quizData,     \* req.body.quizData
  userAnswers,  \* req.body.userAnswers
  res           \* the response of the request

\* The variables of the concurrent server and of the client, which the
\* one-request server leaves alone.
VARIABLES
  conn,         \* concurrent server: per connection, the request, its call and its response
  frames,       \* concurrent server: the variable bindings of the running invocations
  results,      \* client state: results
  isLoading,    \* client state: isLoading
  error,        \* client state: error
  running,      \* client: the rest of the handler that is executing
  inflight      \* client: the backend requests sent and not yet answered

concVars == <<conn, frames>>
clientVars == <<results, isLoading, error, running, inflight>>
serverVars == <<pc, op, apiKey, topic, call, outcome, quizData, userAnswers, res>>
vars == <<serverVars, concVars, clientVars>>

\* Values of the variables a specification does not use.
Unused == [kind |-> "unused"]
ConcUnused == conn = Unused /\ frames = Unused
ClientUnused ==
  /\ results = Unused
  /\ isLoading = FALSE
  /\ error = ""
  /\ running = [phase |-> "idle", ops |-> <<>>]
  /\ inflight = <<>>

NoOutcome == [kind |-> "none"]

Init ==
  /\ pc = "idle"
  /\ op = "none"
  /\ apiKey = Undef
  /\ topic = Undef
  /\ call = NoCall
  /\ outcome = NoOutcome
  /\ quizData = Undef
  /\ userAnswers = Undef
  /\ res = NoResponse
  /\ ConcUnused
  /\ ClientUnused

\* The generate handler up to its await: the credential check, and then either
\* the configuration error or the outbound call.
GenerateStart ==
  /\ pc = "idle"
  /\ \E k \in ApiKeys, tp \in Topics :
       /\ apiKey' = k
       /\ topic' = tp
       /\ IF CredentialMissing(k)
          THEN /\ res' = ErrorResult(500, ConfigMsg)
               /\ call' = NoCall
               /\ pc' = "responded"
          ELSE /\ res' = NoResponse
               /\ call' = ExternalCall(k, tp)
               /\ pc' = "awaiting"
  /\ op' = "generate"
  /\ UNCHANGED <<outcome, quizData, userAnswers, concVars, clientVars>>

\* The generate handler from the settled call to its end.
GenerateFinish ==
  /\ pc = "awaiting"
  /\ \E o \in Outcomes :
       /\ outcome' = o
       /\ res' = AfterCall(o)
  /\ pc' = "responded"
  /\ UNCHANGED <<op, apiKey, topic, call, quizData, userAnswers, concVars, clientVars>>

\* The evaluate handler.
Evaluate ==
  /\ pc = "idle"
  /\ \E qd \in QuizPayloads, ua \in AnswerPayloads :
       /\ quizData' = qd
       /\ userAnswers' = ua
       /\ res' = EvaluateQuiz(qd, ua)
  /\ op' = "evaluate"
  /\ pc' = "responded"
  /\ UNCHANGED <<apiKey, topic, call, outcome, concVars, clientVars>>

\* JSON.stringify of an array element: undefined is written as null.
WireElement(v) == IF v.t = "undefined" THEN Null ELSE v

\* The all-correct AnswerSet of a quiz: answers[i] = questions[i].correctIndex.
AllCorrect(questions) ==
  Arr([i \in 1..Len(questions.items) |->
         WireElement(Get(questions.items[i], "correctIndex"))])

\* A parsed document is a quiz: a sequence of question objects, bare or wrapped.
IsQuiz(v) ==
  LET questions == QuestionsOf(v)
  IN /\ v.t \in {"array", "object"}
     /\ questions.t = "array"
     /\ \A i \in 1..Len(questions.items) : questions.items[i].t = "object"

\* The caller passes the quiz it got from generate straight to evaluate, with
\* the all-correct AnswerSet.
RoundTrip ==
  /\ pc = "responded"
  /\ op = "generate"
  /\ res.kind = "json"
  /\ res.status = 200
  /\ IsQuiz(res.body)
  /\ quizData' = res.body
  /\ userAnswers' = AllCorrect(QuestionsOf(res.body))
  /\ res' = EvaluateQuiz(quizData', userAnswers')
  /\ op' = "roundtrip"
  /\ UNCHANGED <<pc, apiKey, topic, call, outcome, concVars, clientVars>>

\* The request is over; the next one starts from nothing.
Return ==
  /\ pc = "responded"
  /\ pc' = "idle"
  /\ op' = "none"
  /\ apiKey' = Undef
  /\ topic' = Undef
  /\ call' = NoCall
  /\ outcome' = NoOutcome
  /\ quizData' = Undef
  /\ userAnswers' = Undef
  /\ res' = NoResponse
  /\ UNCHANGED <<concVars, clientVars>>

Next == GenerateStart \/ GenerateFinish \/ Evaluate \/ RoundTrip \/ Return

Spec == Init /\ [][Next]_vars

(* ------------------------------------------------------------------ *)
(* Vocabulary of the properties                                         *)
(* ------------------------------------------------------------------ *)
EvaluateDone == pc = "responded" /\ op \in {"evaluate", "roundtrip"}
GenerateDone == pc = "responded" /\ op = "generate"
\* The evaluate request was answered with a ScoreReport.
Reported == EvaluateDone /\ res.kind = "json" /\ res.status = 200
Absent(v) == v = Undef \/ v = Null

\* The questions of the request, read off the payload in either shape.
Questions == IF quizData.t = "array" THEN quizData.items ELSE quizData.questions.items
\* answers[i] for the 1-based position i, Undef when there is none.
AnswerAt(i) ==
  IF userAnswers.t = "array" /\ i <= Len(userAnswers.items)
  THEN userAnswers.items[i]
  ELSE Undef
\* A field of a question entry as stored, Undef when the entry has none.
Stored(entry, field) == IF entry.t = "object" THEN entry[field] ELSE Undef
FalsyValues == {Undef, Null, Bool(FALSE), Num(0), Str("")}
\* The correct index of an entry with 0 standing in for every falsy stored value.
ResolvedIndex(entry) ==
  IF Stored(entry, "correctIndex") \in FalsyValues
  THEN Num(0)
  ELSE Stored(entry, "correctIndex")
\* idx is a number that names a position of the entry's options.
ValidIndex(entry, idx) ==
  /\ Stored(entry, "options").t = "array"
  /\ idx.t = "number"
  /\ idx.n \in 0..(Len(Stored(entry, "options").items) - 1)
OptionAt(entry, idx) == Stored(entry, "options").items[idx.n + 1]

(* ------------------------------------------------------------------ *)
(* C1                                                                   *)
(* ------------------------------------------------------------------ *)
\* C1: evaluate answers with the 'Missing quiz data or user answers.' error
\* when quizData or userAnswers is absent (null/undefined), and with a
\* ScoreReport, never an exception, for every request in which both are
\* present, whatever their shape.
C1_EvaluateTotal ==
  (pc = "responded" /\ op = "evaluate") =>
     IF Absent(quizData) \/ Absent(userAnswers)
     THEN res = ErrorResult(400, MissingMsg)
     ELSE res.kind = "json" /\ res.status = 200

(* ------------------------------------------------------------------ *)
(* C2                                                                   *)
(* ------------------------------------------------------------------ *)
\* C2: a quiz returned by generate and evaluated with the all-correct AnswerSet
\* (answers[i] = questions[i].correctIndex as stored) yields score = total.
C2_RoundTrip ==
  (pc = "responded" /\ op = "roundtrip") =>
     /\ res.kind = "json"
     /\ res.status = 200
     /\ res.body.score = res.body.total

(* ------------------------------------------------------------------ *)
(* C3                                                                   *)
(* ------------------------------------------------------------------ *)
\* The set of positions whose FeedbackItem is flagged correct.
CorrectPositions == {i \in 1..Len(res.body.feedback) : res.body.feedback[i].isCorrect}

\* C3 as stated: isCorrect of feedback[i] is true exactly when the stored
\* correctIndex, or 0 when correctIndex is omitted/absent, strictly equals
\* answers[i], an absent answers[i] never matching; score counts those positions.
C3_AsStated ==
  Reported =>
     /\ \A i \in 1..Len(res.body.feedback) :
          res.body.feedback[i].isCorrect <=>
             /\ ~Absent(AnswerAt(i))
             /\ AnswerAt(i) = (IF Absent(Stored(Questions[i], "correctIndex"))
                               THEN Num(0)
                               ELSE Stored(Questions[i], "correctIndex"))
     /\ res.body.score = Cardinality(CorrectPositions)

\* C3 (amended): isCorrect of feedback[i] is true exactly when the resolved
\* correct index, which is the stored correctIndex or 0 when the stored value is
\* falsy (omitted, null, false, 0, ""), strictly equals answers[i], an absent
\* answers[i] never matching; score is the number of positions flagged correct.
C3_Correctness ==
  Reported =>
     /\ \A i \in 1..Len(res.body.feedback) :
          res.body.feedback[i].isCorrect <=>
             /\ ~Absent(AnswerAt(i))
             /\ AnswerAt(i) = ResolvedIndex(Questions[i])
     /\ res.body.score = Cardinality(CorrectPositions)

\* A report over two questions, one with correctIndex omitted answered 0 and one
\* with a stored index answered otherwise: one correct, one not.
C3_Witness ==
  /\ Reported
  /\ Len(Questions) = 2
  /\ Stored(Questions[1], "correctIndex") = Undef
  /\ AnswerAt(1) = Num(0)
  /\ Stored(Questions[2], "correctIndex") = Num(1)
  /\ AnswerAt(2) = Num(2)
  /\ res.body.score = 1

(* ------------------------------------------------------------------ *)
(* C4                                                                   *)
(* ------------------------------------------------------------------ *)
AllUnanswered ==
  /\ userAnswers.t = "array"
  /\ \A i \in 1..Len(userAnswers.items) : userAnswers.items[i] = Null

\* C4: when every element of the AnswerSet is unanswered (null), the report has
\* score 0 and userAnswer "No answer provided" in every FeedbackItem.
C4_AllUnanswered ==
  (Reported /\ AllUnanswered) =>
     /\ res.body.score = 0
     /\ \A i \in 1..Len(res.body.feedback) :
          res.body.feedback[i].userAnswer = Str("No answer provided")

\* An all-null AnswerSet as long as a quiz of two questions, one of which stores
\* no correctIndex and one a null one.
C4_Witness ==
  /\ Reported
  /\ AllUnanswered
  /\ Len(Questions) = 2
  /\ Len(userAnswers.items) = 2
  /\ Stored(Questions[1], "correctIndex") = Null
  /\ Stored(Questions[2], "correctIndex") = Undef

(* ------------------------------------------------------------------ *)
(* C5                                                                   *)
(* ------------------------------------------------------------------ *)
\* C5: userAnswer is options[answers[i]] when answers[i] is a valid index into
\* the question's options and "No answer provided" exactly otherwise;
\* correctAnswer is options[resolved correctIndex] when that index is valid and
\* "Correct answer missing" exactly otherwise.
C5_DisplayTexts ==
  Reported =>
     \A i \in 1..Len(res.body.feedback) :
        /\ res.body.feedback[i].userAnswer =
             (IF ValidIndex(Questions[i], AnswerAt(i))
              THEN OptionAt(Questions[i], AnswerAt(i))
              ELSE Str("No answer provided"))
        /\ res.body.feedback[i].correctAnswer =
             (IF ValidIndex(Questions[i], ResolvedIndex(Questions[i]))
              THEN OptionAt(Questions[i], ResolvedIndex(Questions[i]))
              ELSE Str("Correct answer missing"))

(* ------------------------------------------------------------------ *)
(* C6                                                                   *)
(* ------------------------------------------------------------------ *)
TextOr(v, placeholder) == IF v.t = "string" /\ v.s # "" THEN v ELSE placeholder

\* C6: total is the number of questions present, feedback has one item per
\* question in the order of the questions (item i carries the text and the
\* explanation of question i, is flagged by answer i and shows the option answer
\* i names), and 0 <= score <= total.
C6_TotalAndOrder ==
  Reported =>
     /\ res.body.total = Len(Questions)
     /\ Len(res.body.feedback) = Len(Questions)
     /\ \A i \in 1..Len(Questions) :
          /\ res.body.feedback[i].question =
               TextOr(Stored(Questions[i], "question"), Str("Question text missing"))
          /\ res.body.feedback[i].explanation =
               TextOr(Stored(Questions[i], "explanation"), Str("No explanation provided."))
          /\ res.body.feedback[i].isCorrect => AnswerAt(i).t = "number"
          /\ res.body.feedback[i].userAnswer # Str("No answer provided") =>
               /\ ValidIndex(Questions[i], AnswerAt(i))
               /\ res.body.feedback[i].userAnswer = OptionAt(Questions[i], AnswerAt(i))
     /\ res.body.score \in 0..res.body.total

\* A report over two different questions, the first with its texts and answered
\* correctly, the second without texts and answered wrongly.
C6_Witness ==
  /\ Reported
  /\ res.body.total = 2
  /\ res.body.score = 1
  /\ res.body.feedback[1].question = Str("2+2?")
  /\ res.body.feedback[1].isCorrect
  /\ res.body.feedback[2].question = Str("Question text missing")
  /\ ~res.body.feedback[2].isCorrect

(* ------------------------------------------------------------------ *)
(* C7                                                                   *)
(* ------------------------------------------------------------------ *)
\* C7: whatever the external call settled with, the generate request ends with
\* exactly one response, the quiz or a structured error result with a message;
\* no exception leaves the handler.
C7_AlwaysResponds ==
  GenerateDone =>
     /\ res.kind = "json"
     /\ res.status = 200 \/ res.error # ""

(* ------------------------------------------------------------------ *)
(* C8                                                                   *)
(* ------------------------------------------------------------------ *)
\* The credentials that are absent or placeholder-valued.
UnusableKeys == {Undef, Str(""), Str(PlaceholderKey), Str("!!!paste key here!!!")}

\* C8: with an absent or placeholder-valued credential the generate request
\* ends with the configuration error and no external call; an external call is
\* issued only after the credential passed the check; and no request that
\* issued the call ends with the configuration error.
C8_CredentialFirst ==
  op = "generate" =>
     /\ apiKey \in UnusableKeys =>
          /\ pc = "responded"
          /\ ~call.issued
          /\ outcome = NoOutcome
          /\ res = ErrorResult(500, ConfigMsg)
     /\ call.issued => apiKey \notin UnusableKeys /\ call.key = apiKey.s
     /\ (pc = "responded" /\ call.issued /\ res.kind = "json") => res.error # ConfigMsg

\* A request that read the placeholder credential has been answered.
C8_Witness ==
  /\ GenerateDone
  /\ apiKey = Str(PlaceholderKey)
  /\ res = ErrorResult(500, ConfigMsg)

(* ------------------------------------------------------------------ *)
(* C9                                                                   *)
(* ------------------------------------------------------------------ *)
\* The external call succeeded with a text that is not a JSON document.
UnparsableText ==
  /\ outcome.kind = "resolved"
  /\ outcome.data \in {Candidates(ModelText("Here is your quiz:", Wrapped(Arr(<<>>)))),
                       Candidates(ModelText("Sorry, I cannot do that.", Undef)),
                       Candidates(ModelText("", Undef))}
\* The error results of transport failures and non-2xx responses.
ExternalServiceErrors == {ErrorResult(500, GenericMsg), ErrorResult(500, InvalidKeyMsg)}

\* C9: when the external service succeeds with a text that cannot be parsed as
\* JSON, generate ends with an error result that differs from the results it
\* produces for transport failures and non-2xx responses.
C9_MalformedDistinct ==
  (GenerateDone /\ UnparsableText) =>
     /\ res.kind = "json"
     /\ res.status # 200
     /\ res \notin ExternalServiceErrors

(* ------------------------------------------------------------------ *)
(* C10                                                                  *)
(* ------------------------------------------------------------------ *)
\* The external call succeeded with a text that is the JSON document doc.
ParsedAs(doc) ==
  /\ outcome.kind = "resolved"
  /\ outcome.data = Candidates(ModelText("", doc))
  /\ doc # Undef
ArrayShape(doc) ==
  \/ doc.t = "array"
  \/ doc.t = "object" /\ "questions" \in DOMAIN doc /\ doc.questions.t = "array"

\* C10: generate succeeds only when the parsed output is a bare array or an
\* object wrapping an array under questions, fails for every other parsed
\* value, and succeeds for such an array of any length.
C10_ShapeChecked ==
  GenerateDone =>
     \A doc \in QuizShapes \cup OtherShapes :
        ParsedAs(doc) =>
           /\ res.kind = "json"
           /\ (res.status = 200) <=> ArrayShape(doc)

(* ------------------------------------------------------------------ *)
(* C11                                                                  *)
(* ------------------------------------------------------------------ *)
\* The external service answered HTTP 400 with the invalid-credential message.
InvalidKeyReply ==
  /\ outcome.kind = "rejected"
  /\ outcome.error.response # Undef
  /\ outcome.error.response.status = 400
  /\ outcome.error.response.data =
       ErrorBody(Str("API key not valid. Please pass a valid API key."))

\* C11: an HTTP 400 whose error message contains "API key not valid" ends with
\* the invalid-credential result; every other external failure (another
\* status, a 400 with anything else, no response, a set-up failure) ends with
\* the generic failure result.
C11_FailureResults ==
  (GenerateDone /\ outcome.kind = "rejected") =>
     IF InvalidKeyReply
     THEN res = ErrorResult(500, "Failed to generate quiz. Your API key is not valid.")
     ELSE res = ErrorResult(500, "Failed to generate quiz. An error occurred on the server.")

(* ------------------------------------------------------------------ *)
(* C12                                                                  *)
(* ------------------------------------------------------------------ *)
\* The questions of the quiz that generate returned.
Returned == IF res.body.t = "array" THEN res.body.items ELSE res.body.questions.items

\* C12: every question of a quiz returned by generate has an explanation
\* string, the empty string when the model output had none.
C12_ExplanationDefaulted ==
  (GenerateDone /\ res.kind = "json" /\ res.status = 200 /\ IsQuiz(res.body)) =>
     \A i \in 1..Len(Returned) : Stored(Returned[i], "explanation").t = "string"

(* ------------------------------------------------------------------ *)
(* C13                                                                  *)
(* ------------------------------------------------------------------ *)
\* The request carried the questions wrapped as { questions: [...] }.
WrappedPayload ==
  /\ quizData.t = "object"
  /\ "questions" \in DOMAIN quizData
  /\ quizData.questions.t = "array"

\* C13: the response to a wrapped payload { questions: Q } with answers A is
\* the response evaluate gives for the bare array Q with the same A.
C13_EitherShape ==
  (pc = "responded" /\ op = "evaluate" /\ WrappedPayload) =>
     res = EvaluateQuiz(Arr(quizData.questions.items), userAnswers)

\* A wrapped quiz of two questions was scored, one answer correct.
C13_Witness ==
  /\ pc = "responded"
  /\ op = "evaluate"
  /\ WrappedPayload
  /\ Len(quizData.questions.items) = 2
  /\ res.kind = "json"
  /\ res.status = 200
  /\ res.body.total = 2
  /\ res.body.score = 1

(* ------------------------------------------------------------------ *)
(* The server with several requests in progress                         *)
(* ------------------------------------------------------------------ *)
\* Connections that may carry a request at the same time.
MaxInvocations == 2
Invocations == 1..MaxInvocations

\* A connection with no request on it.
IdleConn ==
  [pc |-> "idle", op |-> "none", apiKey |-> Undef, topic |-> Undef, call |-> NoCall,
   outcome |-> NoOutcome, quizData |-> Undef, userAnswers |-> Undef, res |-> NoResponse]

\* The bindings of no invocation (res = 0: no response object).
NoFrame ==
  [topic |-> Undef, apiKey |-> Undef, quizData |-> Undef, userAnswers |-> Undef, res |-> 0]

\* Variant: one set of bindings for all invocations (module-level variables).
SharedEnv(i) == 1

\* The bindings an invocation reads and writes: req, res and every const and
\* let of a handler are parameters and locals of the handler function, so each
\* invocation has bindings of its own.
Env(i) == i

ConcKeys == {Str(PlaceholderKey), Str("AIzaSyD-valid")}
ConcTopics == {Str("Photosynthesis"), Str("Rome")}
ConcOutcomes ==
  {[kind |-> "resolved",
    data |-> Candidates(ModelText("", Wrapped(Arr(<<Question(Str("2+2?"), FullOptions,
                                                          Num(1), Str("Basic arithmetic"))>>))))],
   [kind |-> "resolved", data |-> Candidates(ModelText("Sorry, I cannot do that.", Undef))],
   [kind |-> "rejected",
    error |-> [name |-> "AxiosError",
               response |-> [t |-> "object", status |-> 403, data |-> [t |-> "object"]],
               request |-> [t |-> "object"]]]}
ConcQuizzes ==
  {Wrapped(Arr(<<Question(Str("2+2?"), FullOptions, Num(1), Str("Basic arithmetic"))>>)),
   Arr(<<Question(Undef, ShortOptions, Num(2), Undef)>>)}
ConcAnswers == {Arr(<<Num(1)>>), Arr(<<Null>>)}

ConcInit ==
  /\ conn = [i \in Invocations |-> IdleConn]
  /\ frames = [i \in Invocations |-> NoFrame]
  /\ pc = "idle"
  /\ op = "none"
  /\ apiKey = Undef
  /\ topic = Undef
  /\ call = NoCall
  /\ outcome = NoOutcome
  /\ quizData = Undef
  /\ userAnswers = Undef
  /\ res = NoResponse
  /\ ClientUnused

\* res.json(...) / res.status(...).json(...) on the response object the
\* bindings hold: the response goes out on that connection.
Respond(c, target, result) ==
  IF target \in Invocations THEN [c EXCEPT ![target].res = result] ELSE c

\* Invocation i of the generate handler up to its await.
ConcGenerateStart(i) ==
  /\ conn[i].pc = "idle"
  /\ \E k \in ConcKeys, tp \in ConcTopics :
       LET e == Env(i)
           bound == [frames EXCEPT ![e] = [NoFrame EXCEPT !.topic = tp, !.apiKey = k, !.res = i]]
           received == [conn EXCEPT ![i].op = "generate", ![i].apiKey = k, ![i].topic = tp]
       IN IF CredentialMissing(bound[e].apiKey)
          THEN /\ conn' = Respond([received EXCEPT ![i].pc = "responded"],
                                  bound[e].res, ErrorResult(500, ConfigMsg))
               /\ frames' = [bound EXCEPT ![e] = NoFrame]
          ELSE /\ conn' = [received EXCEPT
                             ![i].pc = "awaiting",
                             ![i].call = ExternalCall(bound[e].apiKey, bound[e].topic)]
               /\ frames' = bound
  /\ UNCHANGED <<serverVars, clientVars>>

\* Invocation i of the generate handler from its settled call to its end.
ConcGenerateFinish(i) ==
  /\ conn[i].pc = "awaiting"
  /\ \E o \in ConcOutcomes :
       conn' = Respond([conn EXCEPT ![i].outcome = o, ![i].pc = "responded"],
                       frames[Env(i)].res, AfterCall(o))
  /\ frames' = [frames EXCEPT ![Env(i)] = NoFrame]
  /\ UNCHANGED <<serverVars, clientVars>>

\* Invocation i of the evaluate handler.
ConcEvaluate(i) ==
  /\ conn[i].pc = "idle"
  /\ \E qd \in ConcQuizzes, ua \in ConcAnswers :
       LET e == Env(i)
           bound == [frames EXCEPT
                       ![e] = [NoFrame EXCEPT !.quizData = qd, !.userAnswers = ua, !.res = i]]
           received == [conn EXCEPT ![i].op = "evaluate", ![i].quizData = qd,
                                    ![i].userAnswers = ua, ![i].pc = "responded"]
       IN /\ conn' = Respond(received, bound[e].res,
                             EvaluateQuiz(bound[e].quizData, bound[e].userAnswers))
          /\ frames' = [bound EXCEPT ![e] = NoFrame]
  /\ UNCHANGED <<serverVars, clientVars>>

\* The request on connection i is over.
ConcReturn(i) ==
  /\ conn[i].pc = "responded"
  /\ conn' = [conn EXCEPT ![i] = IdleConn]
  /\ UNCHANGED <<frames, serverVars, clientVars>>

ConcNext ==
  \E i \in Invocations :
     \/ ConcGenerateStart(i)
     \/ ConcGenerateFinish(i)
     \/ ConcEvaluate(i)
     \/ ConcReturn(i)

ConcSpec == ConcInit /\ [][ConcNext]_vars

(* ------------------------------------------------------------------ *)
(* C14                                                                  *)
(* ------------------------------------------------------------------ *)
\* The response of the request on a connection when it is the only request:
\* that of the one-request server for the same inputs.
Alone(c) ==
  IF c.op = "evaluate"
  THEN EvaluateQuiz(c.quizData, c.userAnswers)
  ELSE IF c.apiKey = Str(PlaceholderKey)
       THEN ErrorResult(500, ConfigMsg)
       ELSE AfterCall(c.outcome)

\* C14: under every interleaving, a connection carries a response only once
\* its own invocation has ended, that response is the one the request gets when
\* run alone on its own inputs, and the prompt sent for it holds its own topic.
C14_Independent ==
  \A i \in Invocations :
     /\ conn[i].pc = "responded" => conn[i].res = Alone(conn[i])
     /\ conn[i].pc # "responded" => conn[i].res = NoResponse
     /\ conn[i].call.issued =>
          /\ conn[i].call.contents =
               "Generate the 10-question quiz on the topic: \"" \o conn[i].topic.s \o "\""
          /\ conn[i].call.key = conn[i].apiKey.s

\* Two generate requests with different topics overlap: the second has been
\* answered with its quiz while the first still awaits the external service.
C14_Witness ==
  /\ conn[1].pc = "awaiting"
  /\ conn[1].topic = Str("Photosynthesis")
  /\ conn[2].pc = "responded"
  /\ conn[2].op = "generate"
  /\ conn[2].topic = Str("Rome")
  /\ conn[2].call.issued
  /\ conn[2].res.kind = "json"
  /\ conn[2].res.status = 200

(* ------------------------------------------------------------------ *)
(* The client (App): React state, event handlers, backend replies       *)
(*                                                                      *)
(* topic, quizData and userAnswers are here the state of App. A handler  *)
(* is the list of its state updates and requests, computed from the      *)
(* state its closure saw; running holds the part not yet executed, and   *)
(* every update is a step. No event and no reply is handled while a      *)
(* handler runs (run to completion).                                     *)
(* ------------------------------------------------------------------ *)
NotRunning == [phase |-> "idle", ops |-> <<>>]

SetTopic(v) == [op |-> "setTopic", topic |-> v]
SetQuizData(v) == [op |-> "setQuizData", quizData |-> v]
SetUserAnswers(v) == [op |-> "setUserAnswers", userAnswers |-> v]
SetResults(v) == [op |-> "setResults", results |-> v]
SetIsLoading(b) == [op |-> "setIsLoading", isLoading |-> b]
SetError(msg) == [op |-> "setError", error |-> msg]
\* axios.post(url, body)
Post(request) == [op |-> "post", request |-> request]

EnterTopicMsg == "Please enter a topic."
FormatMsg == "Failed to generate quiz. The data format was incorrect."
GenerateFailedMsg == "An error occurred while generating the quiz. Please try again."
AnswerAllMsg == "Please answer all questions before submitting."
SubmitFailedMsg == "An error occurred while submitting the quiz. Please try again."

\* String.prototype.trim, for texts whose only whitespace is the blank.
RECURSIVE TrimStart(_)
TrimStart(s) ==
  IF Len(s) > 0 /\ SubSeq(s, 1, 1) = " " THEN TrimStart(SubSeq(s, 2, Len(s))) ELSE s
RECURSIVE TrimEnd(_)
TrimEnd(s) ==
  IF Len(s) > 0 /\ SubSeq(s, Len(s), Len(s)) = " "
  THEN TrimEnd(SubSeq(s, 1, Len(s) - 1))
  ELSE s
Trim(s) == TrimEnd(TrimStart(s))

\* v.length of a truthy value: of an array and of a string, else undefined.
LengthOf(v) ==
  CASE v.t = "array" -> Num(Len(v.items))
    [] v.t = "string" -> Num(Len(v.s))
    [] OTHER -> Undef

\* Variant: an answers array one shorter than the quiz.
InitialAnswersShort(n) == Arr([i \in 1..(n - 1) |-> Null])

\* new Array(quizArray.length).fill(null)
InitialAnswers(n) == Arr([i \in 1..n |-> Null])

\* userAnswers.some(answer => answer === null)
SomeNull(answers) == \E i \in 1..Len(answers.items) : answers.items[i] = Null

\* Variant: no finally block.
FinallyMissing == <<>>

\* finally { setIsLoading(false); }
Finally == <<SetIsLoading(FALSE)>>

\* The body of the request as JSON.stringify writes it: an undefined
\* element of an array is written as null.
EvaluateBody(quiz, answers) ==
  [kind |-> "evaluate",
   quizData |-> Wrapped(quiz),
   userAnswers |-> Arr([i \in 1..Len(answers.items) |->
                          IF answers.items[i] = Undef THEN Null ELSE answers.items[i]])]
GenerateBody(tp) == [kind |-> "generate", topic |-> tp]

\* handleGenerateQuiz up to its await, for the topic of its closure.
GenerateQuizOps(tp) ==
  IF Trim(tp.s) = ""
  THEN <<SetError(EnterTopicMsg)>>
  ELSE <<SetIsLoading(TRUE), SetError(""), SetQuizData(Null), SetResults(Null),
         Post(GenerateBody(tp))>>

\* response.data?.questions
QuizArrayOf(data) == IF Nullish(data) THEN Undef ELSE Get(data, "questions")

\* err.response?.data?.error || '...'
ServerErrorOf(reply) ==
  LET data == IF Nullish(reply.response) THEN Undef ELSE Get(reply.response, "data")
      err == IF Nullish(data) THEN Undef ELSE Get(data, "error")
  IN Or(err, Str(GenerateFailedMsg))

\* handleGenerateQuiz from the settled request to its end.
GenerateQuizResume(reply) ==
  (IF reply.kind = "ok"
   THEN LET quizArray == QuizArrayOf(reply.data)
            length == LengthOf(quizArray)
        IN IF Truthy(quizArray) /\ length.t = "number" /\ length.n > 0
           THEN <<SetQuizData(quizArray), SetUserAnswers(InitialAnswers(length.n))>>
           ELSE <<SetError(FormatMsg)>>
   ELSE <<SetError(ServerErrorOf(reply).s)>>)
  \o Finally

\* handleSubmitQuiz up to its await, for the quiz and answers of its closure.
SubmitQuizOps(quiz, answers) ==
  IF SomeNull(answers)
  THEN <<SetError(AnswerAllMsg)>>
  ELSE <<SetIsLoading(TRUE), SetError(""), Post(EvaluateBody(quiz, answers))>>

\* handleSubmitQuiz from the settled request to its end.
SubmitQuizResume(reply) ==
  (IF reply.kind = "ok"
   THEN <<SetResults(reply.data), SetQuizData(Null)>>
   ELSE <<SetError(SubmitFailedMsg)>>)
  \o Finally

\* handleAnswerSelect: [...userAnswers] with the element at questionIndex
\* assigned (an assignment past the end lengthens the array).
AnswerSelectOps(answers, questionIndex, optionIndex) ==
  LET length == IF questionIndex < Len(answers.items)
                THEN Len(answers.items)
                ELSE questionIndex + 1
  IN <<SetUserAnswers(Arr([i \in 1..length |->
                             IF i = questionIndex + 1
                             THEN Num(optionIndex)
                             ELSE Index(answers, Num(i - 1))])),
       SetError("")>>

\* resetApp
ResetOps ==
  <<SetTopic(Str("")), SetQuizData(Null), SetUserAnswers(Null), SetResults(Null),
    SetError(""), SetIsLoading(FALSE)>>

\* The four conditional renders of App.
ShowsLoading == isLoading /\ ~Truthy(results)
ShowsResults == ~isLoading /\ Truthy(results)
ShowsQuiz == ~isLoading /\ ~Truthy(results) /\ Truthy(quizData)
ShowsInput == ~isLoading /\ ~Truthy(results) /\ ~Truthy(quizData)

\* renderQuizScreen completes: quizData.map, userAnswers[qIndex] and every
\* question.options.map can be evaluated. When it throws React unmounts App.
QuizRenders ==
  /\ quizData.t = "array"
  /\ quizData.items # <<>> => ~Nullish(userAnswers)
  /\ \A i \in 1..Len(quizData.items) :
       /\ ~Nullish(quizData.items[i])
       /\ Get(quizData.items[i], "options").t = "array"

\* What the user may type as topic.
TopicTexts == {Str(""), Str(" "), Str("Photosynthesis")}

\* Questions the backend may hand to the client.
ClientEntries ==
  {Question(Str("2+2?"), FullOptions, Num(1), Str("Basic arithmetic")),
   Question(Undef, ShortOptions, Num(1), Undef),
   Question(Undef, Undef, Num(2), Undef),
   Null}

\* Bodies of a 200 reply of the generate route: whatever the model text parsed to.
GenerateData ==
  {Wrapped(Arr(q)) : q \in SeqsUpTo(ClientEntries, MaxQuestions)}
  \cup {Arr(<<Question(Undef, ShortOptions, Num(1), Undef)>>), Null, Num(5),
        Wrapped(Str("none")), [t |-> "object", quiz |-> Arr(<<>>)]}

\* What axios.post settles with for a response of the server.
ReplyOf(result) ==
  CASE result.kind = "json" /\ result.status = 200 ->
         [kind |-> "ok", data |-> result.body]
    [] result.kind = "json" /\ result.status # 200 ->
         [kind |-> "error",
          response |-> [t |-> "object",
                        data |-> [t |-> "object", error |-> Str(result.error)]]]
    [] OTHER ->   \* the framework's error page for an exception of the handler
         [kind |-> "error",
          response |-> [t |-> "object", data |-> Str("<pre>TypeError</pre>")]]
\* No response was received.
NetworkError == [kind |-> "error", response |-> Undef]

\* The ScoreReport as the object the client receives.
Report(body) ==
  [t |-> "object", score |-> body.score, total |-> body.total, feedback |-> body.feedback]

GenerateReplies ==
  {ReplyOf(JsonResult(d)) : d \in GenerateData}
  \cup {ReplyOf(ErrorResult(500, m)) : m \in {ConfigMsg, InvalidKeyMsg, GenericMsg}}
  \cup {ReplyOf(Uncaught("TypeError")), NetworkError}

EvaluateReplies(request) ==
  LET result == EvaluateQuiz(request.quizData, request.userAnswers)
  IN {IF result.kind = "json" /\ result.status = 200
      THEN [kind |-> "ok", data |-> Report(result.body)]
      ELSE ReplyOf(result),
      NetworkError}

ClientInit ==
  /\ topic = Str("")
  /\ quizData = Null
  /\ userAnswers = Null
  /\ results = Null
  /\ isLoading = FALSE
  /\ error = ""
  /\ running = NotRunning
  /\ inflight = <<>>
  /\ pc = "idle"
  /\ op = "none"
  /\ apiKey = Undef
  /\ call = NoCall
  /\ outcome = NoOutcome
  /\ res = NoResponse
  /\ ConcUnused

unusedByClient == <<pc, op, apiKey, call, outcome, res, concVars>>
Idle == running.ops = <<>>
Start(ops) == running' = [phase |-> "event", ops |-> ops]

\* onChange of the topic input.
onChange ==
  /\ Idle /\ ShowsInput /\ ~isLoading
  /\ \E v \in TopicTexts : v # topic /\ Start(<<SetTopic(v)>>)
  /\ UNCHANGED <<topic, quizData, userAnswers, results, isLoading, error, inflight,
                 unusedByClient>>

\* Click on "Generate 10-Question Quiz" (disabled={isLoading || !topic.trim()}).
handleGenerateQuiz ==
  /\ Idle /\ ShowsInput
  /\ ~(isLoading \/ Trim(topic.s) = "")
  /\ Start(GenerateQuizOps(topic))
  /\ UNCHANGED <<topic, quizData, userAnswers, results, isLoading, error, inflight,
                 unusedByClient>>

\* onChange of a radio button of question qIndex (disabled={isLoading}); the
\* checked button (checked={userAnswers[qIndex] === oIndex}) fires no change.
handleAnswerSelect ==
  /\ Idle /\ ShowsQuiz /\ QuizRenders /\ ~isLoading
  /\ \E qIndex \in 0..(Len(quizData.items) - 1) :
       \E oIndex \in 0..(Len(quizData.items[qIndex + 1].options.items) - 1) :
          /\ Index(userAnswers, Num(qIndex)) # Num(oIndex)
          /\ Start(AnswerSelectOps(userAnswers, qIndex, oIndex))
  /\ UNCHANGED <<topic, quizData, userAnswers, results, isLoading, error, inflight,
                 unusedByClient>>

\* Click on "Submit Quiz" (disabled={isLoading || userAnswers.some(a => a === null)}).
handleSubmitQuiz ==
  /\ Idle /\ ShowsQuiz /\ QuizRenders
  /\ ~(isLoading \/ SomeNull(userAnswers))
  /\ Start(SubmitQuizOps(quizData, userAnswers))
  /\ UNCHANGED <<topic, quizData, userAnswers, results, isLoading, error, inflight,
                 unusedByClient>>

\* Click on "Generate Another Quiz".
resetApp ==
  /\ Idle /\ ShowsResults
  /\ Start(ResetOps)
  /\ UNCHANGED <<topic, quizData, userAnswers, results, isLoading, error, inflight,
                 unusedByClient>>

Rest == [running EXCEPT !.ops = Tail(running.ops),
                        !.phase = IF Len(running.ops) = 1 THEN "idle" ELSE running.phase]

\* The next state update of the running handler.
SetState ==
  /\ running.ops # <<>>
  /\ Head(running.ops).op # "post"
  /\ LET u == Head(running.ops)
     IN /\ topic' = IF u.op = "setTopic" THEN u.topic ELSE topic
        /\ quizData' = IF u.op = "setQuizData" THEN u.quizData ELSE quizData
        /\ userAnswers' = IF u.op = "setUserAnswers" THEN u.userAnswers ELSE userAnswers
        /\ results' = IF u.op = "setResults" THEN u.results ELSE results
        /\ isLoading' = IF u.op = "setIsLoading" THEN u.isLoading ELSE isLoading
        /\ error' = IF u.op = "setError" THEN u.error ELSE error
  /\ running' = Rest
  /\ UNCHANGED <<inflight, unusedByClient>>

\* The running handler sends its request and suspends at the await.
Send ==
  /\ running.ops # <<>>
  /\ Head(running.ops).op = "post"
  /\ inflight' = Append(inflight, Head(running.ops).request)
  /\ running' = Rest
  /\ UNCHANGED <<topic, quizData, userAnswers, results, isLoading, error, unusedByClient>>

Without(seq, k) == [i \in 1..(Len(seq) - 1) |-> IF i < k THEN seq[i] ELSE seq[i + 1]]

\* A request settles and its handler resumes.
Settle ==
  /\ Idle
  /\ \E k \in 1..Len(inflight) :
       /\ inflight' = Without(inflight, k)
       /\ IF inflight[k].kind = "generate"
          THEN \E reply \in GenerateReplies :
                  running' = [phase |-> "resumed", ops |-> GenerateQuizResume(reply)]
          ELSE \E reply \in EvaluateReplies(inflight[k]) :
                  running' = [phase |-> "resumed", ops |-> SubmitQuizResume(reply)]
  /\ UNCHANGED <<topic, quizData, userAnswers, results, isLoading, error, unusedByClient>>

ClientNext ==
  \/ onChange
  \/ handleGenerateQuiz
  \/ handleAnswerSelect
  \/ handleSubmitQuiz
  \/ resetApp
  \/ SetState
  \/ Send
  \/ Settle

ClientSpec == ClientInit /\ [][ClientNext]_vars

\* The event loop runs a started handler to its end.
ClientFairSpec == ClientSpec /\ WF_vars(SetState) /\ WF_vars(Send)

(* ------------------------------------------------------------------ *)
(* Claims about the client                                              *)
(* ------------------------------------------------------------------ *)
EvaluateRequests == {k \in 1..Len(inflight) : inflight[k].kind = "evaluate"}

\* C16: a submission that was sent carries the quiz the client holds, wrapped
\* as { questions: [...] } with at least one question, and an answers array
\* of the same length in which every element is a selected option index.
C16_SubmissionWellFormed ==
  \A k \in EvaluateRequests :
    LET request == inflight[k]
    IN /\ request.quizData = Wrapped(quizData)
       /\ quizData.t = "array"
       /\ Len(quizData.items) > 0
       /\ request.userAnswers.t = "array"
       /\ Len(request.userAnswers.items) = Len(quizData.items)
       /\ \A i \in 1..Len(request.userAnswers.items) :
            /\ request.userAnswers.items[i] # Null
            /\ request.userAnswers.items[i].t = "number"

\* A submission of a quiz of MaxQuestions questions is in flight.
C16_Witness ==
  \E k \in EvaluateRequests :
    /\ Len(inflight[k].quizData.questions.items) = MaxQuestions
    /\ Len(inflight[k].userAnswers.items) = MaxQuestions

\* The screens rendered in the current state.
Screens ==
  {name \in {"loading", "results", "quiz", "input"} :
     \/ name = "loading" /\ ShowsLoading
     \/ name = "results" /\ ShowsResults
     \/ name = "quiz" /\ ShowsQuiz
     \/ name = "input" /\ ShowsInput}

\* C17: with each state update taken as its own step, every reachable state
\* renders exactly one of the four screens (loading, results, quiz, topic
\* input): never none and never two.
C17_ExactlyOneScreen == Cardinality(Screens) = 1

\* A settled request has resumed its handler, which has not reached its end.
Resumed == running.phase = "resumed"

\* C18: at most one backend request is in flight at any time, isLoading is
\* true whenever one is in flight, and once a request has settled, with a
\* response or with an error, isLoading eventually is false again.
C18_LoadingBracketsRequest ==
  /\ [](Len(inflight) <= 1)
  /\ [](inflight # <<>> => isLoading)
  /\ (Resumed ~> ~isLoading)

\* A generate request has settled with an error, its handler has ended and
\* isLoading is false again.
C18_Witness ==
  /\ Idle
  /\ inflight = <<>>
  /\ error = GenericMsg
  /\ ~isLoading

====
